---- MODULE Spec2Model ----
(***************************************************************************)
(* Deep-research agent: the LangGraph workflow (supervisor, planning_gate, *)
(* researcher, writer, reviewer), its routing functions, and the           *)
(* ResearchManager that runs one session of it.                            *)
(*                                                                         *)
(* External capabilities (LLM, search) are nondeterministic: every call    *)
(* draws its outcome from the set of outcome classes the calling code      *)
(* distinguishes.                                                          *)
(*                                                                         *)
(* URLs are natural numbers, 0 standing for the empty string.  They are    *)
(* named in the order in which the search capability first returns them    *)
(* (a renaming of the URLs, which the code only compares for equality).    *)
(***************************************************************************)
EXTENDS Integers, Sequences, FiniteSets, TLC

VARIABLES
    state,                      \* ResearchState: the graph's channel values
    pc,                         \* the node the graph executes next (state.next)
    last,                       \* the node executed most recently
    resumed,                    \* invoke(None) entered, no node executed since
    steps,                      \* nodes executed by the graph.invoke in progress
    phase,                      \* where the manager's task / call stands
    status,                     \* researches[id]["status"]
    store,                      \* the session's file in persist_dir
    max_iterations,             \* create_research(max_iterations=...)
    enable_human_intervention,  \* create_research(enable_human_intervention=...)
    MAX_ITERATIONS,             \* Settings().MAX_ITERATIONS (environment)
    search_log,                 \* what the search capability returned so far
    registered,                 \* research_id in self.researches (and self.graphs)
    completed_at,               \* researches[id]["completed_at"]
    response,                   \* the answer of the API request handled last
    deleted,                    \* delete_research has removed the session
    restarted,                  \* the process has been restarted
    was_completed,              \* _run_research has recorded "completed"
    others,                     \* the other researches of the manager and their files
    listing,                    \* what list_persisted_researches returned
    pool                        \* the thread pools of a researcher pass, step by step

vars == <<state, pc, last, resumed, steps, phase, status, store, max_iterations,
          enable_human_intervention, MAX_ITERATIONS, search_log,
          registered, completed_at, response, deleted, restarted,
          was_completed, others, listing, pool>>

NULL == "None"
NoPlan == [source |-> "None", queries |-> 0, prompt_input |-> NULL]  \* task_plan is None
NoResult == -1                                                       \* a task returned None
NoFile == [status |-> "absent"]                                      \* no file for the session
NoTime == [sec |-> -1, usec |-> 0]                                   \* a datetime field is absent
NoResponse == "none"                                                 \* no request handled in this step
NotFound == [status |-> "not_found"]                                 \* a lookup returned None

(* ---------------------------- bounds ---------------------------------- *)
MaxConfigIterations == 6    \* Settings().MAX_ITERATIONS ranges over 1..this
MaxSessionIterations == 1   \* create_research max_iterations over 1..this
NumUrls == 5                \* distinct URLs the search capability knows
MaxBatch == 2               \* raw results collected in one researcher pass
MaxQueries == 2             \* search_queries of a plan the LLM returns
MaxOthers == 2              \* other researches the manager may know

(* ------------------------ program constants --------------------------- *)
MIN_RESEARCH_DATA_COUNT == 5
TemplateQueries == 3
\* LangGraph's default recursion_limit; the config of create_research sets
\* none.  A graph.invoke that has executed this many nodes and has not
\* finished raises GraphRecursionError.
RecursionLimit == 25

HumanInputs == {"", "focus on X"}

(* Texts an LLM may put where the code expects a next action. "review" is *)
(* in the state's Literal type but in no routing table.                   *)
NextActionTexts == {"research", "write", "end", "review"}

(* ------------------------- external outcomes -------------------------- *)
\* supervisor planning call: raises after retries, unparseable, or a plan
PlanOutcomes == {[kind |-> "raise", queries |-> 0],
                 [kind |-> "malformed", queries |-> 0]} \cup
                {[kind |-> "json", queries |-> n] : n \in 1..MaxQueries}
\* supervisor routing call
RouteOutcomes == {"raise", "malformed"} \cup NextActionTexts
\* writer call(s): first call ok | token-limit error then retry ok / fails |
\* rate-limit-shaped error | any other error
WriterOutcomes == {"ok", "toolarge_retry_ok", "toolarge_retry_fail",
                   "ratelimit", "error"}
\* reviewer call
ReviewOutcomes == {[kind |-> "raise", approved |-> FALSE, suggested_action |-> "research"],
                   [kind |-> "malformed", approved |-> FALSE, suggested_action |-> "research"]} \cup
                  [kind : {"json"}, approved : BOOLEAN, suggested_action : NextActionTexts]

(* ------------------------------ helpers ------------------------------- *)
Range(f) == {f[i] : i \in DOMAIN f}

Min(a, b) == IF a <= b THEN a ELSE b

MaxUrl(urls) == IF urls = {} THEN 0 ELSE CHOOSE m \in urls : \A u \in urls : u <= m

\* The result lists of at most n entries when research_data holds the URLs
\* 1..k0 and the list so far has brought the new URLs k0+1..k: an entry has
\* the empty URL 0, repeats a URL of research_data, repeats a new URL of
\* the list, or is the next new URL k + 1.  The researcher only tests a URL
\* for membership in research_data (researcher.py:173), so the URLs that
\* research_data holds are interchangeable and k0 stands for all of them.
RECURSIVE BatchesFrom(_, _, _)
BatchesFrom(k0, k, n) ==
    IF n = 0 THEN {<<>>}
    ELSE {<<>>} \cup
         UNION { { <<u>> \o q : q \in BatchesFrom(k0, IF u = k + 1 THEN k + 1 ELSE k, n - 1) }
                 : u \in {0} \cup {v \in {k0} : v >= 1} \cup (k0 + 1)..Min(k + 1, NumUrls) }

\* all_search_results of one pass (researcher.py:161-166), results of failed
\* or empty queries contributing nothing
SearchBatches(known) == BatchesFrom(MaxUrl(known), MaxUrl(known), MaxBatch)

\* tavily_search_tool.invoke raised (after its retries)
SearchFailed == [ok |-> FALSE, results |-> <<>>]

\* The results all dealt to the n queries of which those in F fail: each
\* succeeding query returns one result, in order, as long as there are
\* any, and the last succeeding query returns all that are left.
Deal(all, n, F) ==
    [ i \in 1..n |->
        IF i \in F
        THEN SearchFailed
        ELSE LET r == Cardinality({j \in 1..i : j \notin F})
             IN [ ok      |-> TRUE,
                  results |-> IF r < n - Cardinality(F)
                              THEN SubSeq(all, r, Min(r, Len(all)))
                              ELSE SubSeq(all, r, Len(all)) ] ]

\* What the search capability does for the n queries of one pass: each call
\* fails or returns a result list, the lists together holding at most
\* MaxBatch results.
SearchOutcomes(n, known) ==
    UNION { { Deal(all, n, F) : F \in {G \in SUBSET (1..n) : G = 1..n => all = <<>>} }
            : all \in SearchBatches(known) }

(* --------------------------- initial state ---------------------------- *)
initial_state ==
    [ messages        |-> "human",
      task_plan       |-> NoPlan,
      research_data   |-> <<>>,
      current_draft   |-> NULL,
      feedback        |-> NULL,
      iteration_count |-> 0,
      next_action     |-> "research",
      human_input     |-> NULL ]

\* run_parallel_sync has not returned
NoReturn == [done |-> FALSE, list |-> <<>>, in_order |-> TRUE]

\* no call of run_parallel_sync
NoCall == [tasks |-> <<>>, max_workers |-> 0, results |-> <<>>, returned |-> NoReturn]

\* the pools of a researcher pass are not looked into
NoPool == [stage |-> "atomic", call |-> NoCall,
           searched |-> [tasks |-> 0, finished |-> 0]]

\* no search has been made
no_searches == [query_failed |-> FALSE, zero_results |-> TRUE, batch_dup |-> FALSE]

Ok(s)     == [st |-> s, exc |-> FALSE]
Raised(s) == [st |-> s, exc |-> TRUE]

(* ------------------------- utils/error_handler ------------------------ *)
\* mutant: the exception is swallowed and the state returned as it is
handle_node_errors_mutant_no_end(r) == r.st

\* r is what the node body did: the (mutated in place) state and whether an
\* exception escaped it.
handle_node_errors(r) ==
    IF r.exc
    THEN [r.st EXCEPT !.messages = "error", !.next_action = "end"]
    ELSE r.st

(* --------------------------- nodes/supervisor ------------------------- *)
\* the human input as the planning prompt carries it (None and "" add nothing)
PromptInput(s) == IF s.human_input \in {NULL, ""} THEN NULL ELSE s.human_input

\* mutant: an unparseable answer gives no plan
generate_research_plan_mutant_no_template(s, po) ==
    IF po.kind = "malformed"
    THEN NoPlan
    ELSE [source |-> "llm", queries |-> po.queries, prompt_input |-> PromptInput(s)]

\* the LLM call is outside the try block: "raise" escapes (handled by caller)
generate_research_plan(s, po) ==
    IF po.kind = "malformed"
    THEN [source |-> "template", queries |-> TemplateQueries, prompt_input |-> NULL]
    ELSE [source |-> "llm", queries |-> po.queries, prompt_input |-> PromptInput(s)]

evaluate_progress(s) == [data_count |-> Len(s.research_data)]

\* mutant: the iteration cap is not checked before routing
decide_next_action_mutant_no_cap(s, progress, ro) ==
    IF progress.data_count < MIN_RESEARCH_DATA_COUNT
    THEN [action |-> "research", exc |-> FALSE]
    ELSE IF s.current_draft = NULL
    THEN [action |-> "write", exc |-> FALSE]
    ELSE IF ro = "raise" THEN [action |-> NULL, exc |-> TRUE]
    ELSE IF ro = "malformed" THEN [action |-> "research", exc |-> FALSE]
    ELSE [action |-> ro, exc |-> FALSE]

\* mutant: the rung for a missing draft is skipped
decide_next_action_mutant_no_write_rung(s, progress, ro) ==
    IF s.iteration_count >= MAX_ITERATIONS
    THEN [action |-> "end", exc |-> FALSE]
    ELSE IF progress.data_count < MIN_RESEARCH_DATA_COUNT
    THEN [action |-> "research", exc |-> FALSE]
    ELSE IF ro = "raise" THEN [action |-> NULL, exc |-> TRUE]
    ELSE IF ro = "malformed" THEN [action |-> "research", exc |-> FALSE]
    ELSE [action |-> ro, exc |-> FALSE]

decide_next_action(s, progress, ro) ==
    IF s.iteration_count >= MAX_ITERATIONS
    THEN [action |-> "end", exc |-> FALSE]
    ELSE IF progress.data_count < MIN_RESEARCH_DATA_COUNT
    THEN [action |-> "research", exc |-> FALSE]
    ELSE IF s.current_draft = NULL /\ progress.data_count >= MIN_RESEARCH_DATA_COUNT
    THEN [action |-> "write", exc |-> FALSE]
    \* delegated to the LLM.  When the call itself raises, the except block
    \* reads the unbound local `response` and the NameError escapes.
    ELSE IF ro = "raise" THEN [action |-> NULL, exc |-> TRUE]
    ELSE IF ro = "malformed" THEN [action |-> "research", exc |-> FALSE]
    ELSE [action |-> ro, exc |-> FALSE]

supervisor_body(s, po, ro) ==
    IF s.task_plan = NoPlan /\ po.kind = "raise"
    THEN Raised(s)
    ELSE LET s1 == IF s.task_plan = NoPlan
                   THEN [s EXCEPT !.task_plan = generate_research_plan(s, po),
                                  !.human_input = NULL]
                   ELSE s
             d  == decide_next_action(s1, evaluate_progress(s1), ro)
         IN IF d.exc
            THEN Raised(s1)
            ELSE Ok([s1 EXCEPT !.messages = "routing",
                               !.next_action = d.action,
                               !.human_input = NULL])

\* mutant: the supervisor counts its own executions
supervisor_node_mutant_counts(s, po, ro) ==
    LET s2 == handle_node_errors(supervisor_body(s, po, ro))
    IN [s2 EXCEPT !.iteration_count = s.iteration_count + 1]

supervisor_node(s, po, ro) == handle_node_errors(supervisor_body(s, po, ro))

\* mutant: the human input is left in the state
revise_plan_node_mutant_keeps_input(s, po) ==
    handle_node_errors(
        IF po.kind = "raise"
        THEN Raised(s)
        ELSE Ok([s EXCEPT !.task_plan = generate_research_plan(s, po)]))

revise_plan_node(s, po) ==
    handle_node_errors(
        IF po.kind = "raise"
        THEN Raised(s)
        ELSE Ok([s EXCEPT !.task_plan = generate_research_plan(s, po),
                          !.human_input = NULL]))

planning_gate_node(s) == s

(* ---------------------------- utils/parallel -------------------------- *)
\* One result per task, in the order of the tasks; a task that raised gives
\* None and the other tasks run to their end.
run_parallel_sync(tasks) ==
    [i \in DOMAIN tasks |-> IF tasks[i].exc THEN NoResult ELSE tasks[i].st]

(* --------------------------- nodes/researcher ------------------------- *)
\* researcher.py:26-57: every exception of the search call is caught and an
\* empty list returned
execute_search(outcome) ==
    IF outcome.ok THEN Ok(outcome.results) ELSE Ok(<<>>)

RECURSIVE all_search_results_mutant_break(_)
\* mutant: collecting stops at the first query without results
all_search_results_mutant_break(search_results_list) ==
    IF search_results_list = <<>> THEN <<>>
    ELSE LET search_results == Head(search_results_list)
         IN IF search_results = <<>>
            THEN <<>>
            ELSE search_results \o all_search_results_mutant_break(Tail(search_results_list))

RECURSIVE all_search_results(_)
\* researcher.py:161-166: a query without results is skipped (None does not
\* occur here: execute_search raises nothing)
all_search_results(search_results_list) ==
    IF search_results_list = <<>> THEN <<>>
    ELSE LET search_results == Head(search_results_list)
         IN IF search_results = <<>>
            THEN all_search_results(Tail(search_results_list))
            ELSE search_results \o all_search_results(Tail(search_results_list))

\* researcher.py:152-158: one search task per query of the plan
search_results_list_of(outcomes) ==
    run_parallel_sync([i \in DOMAIN outcomes |-> execute_search(outcomes[i])])

RECURSIVE UniqueResults_mutant_no_seen(_, _, _)
\* mutant: the batch is only compared with research_data, not with itself
UniqueResults_mutant_no_seen(all, seen_urls, existing_urls) ==
    IF all = <<>> THEN <<>>
    ELSE LET url == Head(all)
         IN IF url # 0 /\ url \notin existing_urls
            THEN <<url>> \o UniqueResults_mutant_no_seen(Tail(all), seen_urls, existing_urls)
            ELSE UniqueResults_mutant_no_seen(Tail(all), seen_urls, existing_urls)

RECURSIVE UniqueResults(_, _, _)
\* researcher.py:169-175: first-seen wins, empty URLs and known URLs dropped
UniqueResults(all, seen_urls, existing_urls) ==
    IF all = <<>> THEN <<>>
    ELSE LET url == Head(all)
         IN IF url # 0 /\ url \notin seen_urls /\ url \notin existing_urls
            THEN <<url>> \o UniqueResults(Tail(all), seen_urls \cup {url}, existing_urls)
            ELSE UniqueResults(Tail(all), seen_urls, existing_urls)

\* what the summarization of one candidate meets: the LLM answers with a
\* summary ("ok"), the LLM call or the making of the LLM raises ("raise"),
\* or there is nothing to summarize or the answer is blank ("nothing")
SummaryOutcomes == {"ok", "raise", "nothing"}

\* summarizer.py:48-127: "" for empty content and for a blank answer, the
\* head of the content when the LLM fails, else the (stripped) answer
summarize_url_content(so) ==
    CASE so = "ok"      -> "summary"
      [] so = "raise"   -> "content_prefix"
      [] so = "nothing" -> ""

\* SearchResult.summary has min_length 1
SearchResultValid(summary) == summary # ""

\* the outcomes of the summarizations of n candidates.  URLs are
\* interchangeable, so the candidates that yield an entry are taken to be
\* the first ones of the pass.
SummaryResults(n) ==
    { sums \in [1..n -> SummaryOutcomes] :
        \A i, j \in 1..n :
            (i < j /\ SearchResultValid(summarize_url_content(sums[j])))
                => SearchResultValid(summarize_url_content(sums[i])) }

\* researcher.py:60-111: None for a URL already in existing_urls; None as
\* well when SearchResult(...) raises the validation error that the outer
\* except block catches
create_search_result_with_summary(result, existing_urls, so) ==
    IF result \in existing_urls
    THEN NoResult
    ELSE IF SearchResultValid(summarize_url_content(so))
    THEN result
    ELSE NoResult

SelectNotNull(q) == SelectSeq(q, LAMBDA x : x # NoResult)

researcher_body(s, all, sums) ==
    IF s.task_plan = NoPlan
    THEN Ok([s EXCEPT !.messages = "error_no_plan", !.next_action = "end"])
    ELSE LET existing_urls   == Range(s.research_data)
             unique_results  == UniqueResults(all, {}, existing_urls)
             summary_results == [i \in DOMAIN unique_results |->
                                   create_search_result_with_summary(unique_results[i], existing_urls, sums[i])]
             new_results     == SelectNotNull(summary_results)
         IN Ok([s EXCEPT !.research_data = s.research_data \o new_results,
                         !.iteration_count = s.iteration_count + 1,
                         !.messages = "search_summary"])

\* the summarization outcomes a pass with these results can meet
SummaryResultsFor(s, all) ==
    SummaryResults(Len(UniqueResults(all, {}, Range(s.research_data))))

researcher_node(s, all, sums) == handle_node_errors(researcher_body(s, all, sums))

(* ----------------------------- nodes/writer --------------------------- *)
writer_body(s, wo) ==
    IF s.task_plan = NoPlan
    THEN Ok([s EXCEPT !.messages = "error_no_plan", !.next_action = "end"])
    ELSE IF s.research_data = <<>>
    THEN Ok([s EXCEPT !.messages = "warning_no_data", !.next_action = "research"])
    ELSE CASE wo = "ok" ->
                Ok([s EXCEPT !.current_draft = "draft",
                             !.iteration_count = s.iteration_count + 1,
                             !.human_input = NULL,
                             !.messages = "draft"])
           [] wo = "toolarge_retry_ok" ->
                Ok([s EXCEPT !.current_draft = "reduced_draft",
                             !.iteration_count = s.iteration_count + 1,
                             !.human_input = NULL,
                             !.messages = "draft_reduced"])
           [] wo = "toolarge_retry_fail" ->
                Ok([s EXCEPT !.current_draft = "fallback_draft",
                             !.messages = "draft_fallback",
                             !.next_action = "review"])
           [] wo = "ratelimit" ->
                Ok([s EXCEPT !.messages = "rate_limit",
                             !.next_action = "research"])
           [] wo = "error" ->
                Ok([s EXCEPT !.current_draft = "fallback_draft",
                             !.messages = "draft_fallback",
                             !.next_action = "review"])

writer_node(s, wo) == handle_node_errors(writer_body(s, wo))

(* ---------------------------- nodes/reviewer -------------------------- *)
\* mutant: an unparseable verdict gets the defaults of a parsed one
parse_evaluation_result_mutant_no_fallback(vo) ==
    [approved |-> vo.approved, feedback |-> "feedback",
     suggested_action |-> vo.suggested_action]

\* parse_evaluation_result: a text that is empty or not JSON gives the
\* fallback verdict; a parsed verdict is taken as it is
parse_evaluation_result(vo) ==
    IF vo.kind = "malformed"
    THEN [approved |-> FALSE, feedback |-> "parse_failed", suggested_action |-> "write"]
    ELSE [approved |-> vo.approved, feedback |-> "feedback",
          suggested_action |-> vo.suggested_action]

reviewer_body(s, vo) ==
    IF s.current_draft = NULL
    THEN Ok([s EXCEPT !.messages = "error_no_draft", !.next_action = "write"])
    ELSE IF vo.kind = "raise"
    THEN Ok([s EXCEPT !.messages = "review_error", !.next_action = "write"])
    ELSE LET eval_result == parse_evaluation_result(vo)
         IN IF eval_result.approved
            THEN Ok([s EXCEPT !.next_action = "end",
                              !.feedback = NULL,
                              !.messages = "review_approved",
                              !.iteration_count = s.iteration_count + 1])
            ELSE Ok([s EXCEPT !.next_action = eval_result.suggested_action,
                              !.feedback = eval_result.feedback,
                              !.messages = "review_rejected",
                              !.iteration_count = s.iteration_count + 1])

reviewer_node(s, vo) == handle_node_errors(reviewer_body(s, vo))

(* ------------------------------ graph/edges --------------------------- *)
route_supervisor(s) == s.next_action

\* mutant: the iteration cap is not checked after a review
route_reviewer_mutant_no_cap(s) == s.next_action

route_reviewer(s) ==
    IF s.iteration_count >= MAX_ITERATIONS THEN "end" ELSE s.next_action

(* --------------------------- graph/graph_builder ---------------------- *)
END == "END"
Nodes == {"supervisor", "planning_gate", "researcher", "writer", "reviewer"}

\* mutant: the reviewer's research edge goes through the planning gate
ReviewerEdges_mutant_via_gate ==
    [research |-> "planning_gate", write |-> "writer", end |-> END]

SupervisorEdges == [research |-> "planning_gate", write |-> "writer", end |-> END]
ReviewerEdges   == [research |-> "researcher",    write |-> "writer", end |-> END]

\* the node the graph goes to after `node` returned s: researcher and writer
\* have one edge each, whatever next_action says; supervisor and reviewer
\* route on it
next_node(node, s) ==
    CASE node = "supervisor"    -> SupervisorEdges[route_supervisor(s)]
      [] node = "planning_gate" -> "researcher"
      [] node = "researcher"    -> "supervisor"
      [] node = "writer"        -> "reviewer"
      [] node = "reviewer"      -> ReviewerEdges[route_reviewer(s)]

\* the pairs (node, node executed next) that the entry point and the edges
\* allow; "START" stands for the entry
StagePairs ==
    { <<"START", "supervisor">>,
      <<"supervisor", "planning_gate">>, <<"planning_gate", "researcher">>,
      <<"supervisor", "writer">>, <<"researcher", "supervisor">>,
      <<"writer", "reviewer">>,
      <<"reviewer", "researcher">>, <<"reviewer", "writer">> }

(* ------------------------ api/research_manager ------------------------ *)
\* create_research: interrupt_before handed to build_graph
interrupt_before ==
    IF enable_human_intervention THEN {"supervisor", "writer"} ELSE {}

\* datetime.now() at create_research (with microseconds) and at the end of
\* _run_research (on a whole second)
created_at == [sec |-> 0, usec |-> 250]
Datetimes == {[sec |-> 1, usec |-> 0]}
theme == "X"

\* datetime.isoformat(): the text has a fraction only when microsecond # 0.
\* The text is modelled by its numeric fields.
isoformat(d) ==
    IF d = NoTime THEN <<>>
    ELSE IF d.usec = 0 THEN <<d.sec>> ELSE <<d.sec, d.usec>>

\* _deserialize_datetime: datetime.fromisoformat on a text, None kept
deserialize_datetime(text) ==
    IF text = <<>> THEN NoTime
    ELSE IF Len(text) = 1 THEN [sec |-> text[1], usec |-> 0]
    ELSE [sec |-> text[1], usec |-> text[2]]

\* _serialize_result: the part of the state that is written to the file
serialize_result(s) ==
    [ task_plan       |-> s.task_plan,
      current_draft   |-> s.current_draft,
      iteration_count |-> s.iteration_count,
      research_data   |-> s.research_data ]

\* _save_research: only a registered, completed research is written
save_research(reg, st, done_at, s) ==
    IF reg /\ st = "completed"
    THEN [ status         |-> st,
           theme          |-> theme,
           max_iterations |-> max_iterations,
           created_at     |-> isoformat(created_at),
           completed_at   |-> isoformat(done_at),
           result         |-> serialize_result(s) ]
    ELSE store

\* json.dump(payload, f, ...): the text of a file, as its brackets and its
\* members in the order in which they are written (payload and the result
\* of _serialize_result)
PayloadText ==
    << "{", "research_id", "status", "theme", "max_iterations", "created_at",
       "completed_at", "result", "{", "task_plan", "current_draft",
       "iteration_count", "research_data", "}", "}" >>

\* the file that a write stopped after k parts of the text leaves
\* (open(path, "w") has emptied the file before the first part)
PartialFile(k) ==
    [ status |-> "partial", written |-> k, theme |-> theme,
      created_at |-> <<>>, completed_at |-> <<>> ]

\* the text in a file
file_text(file) ==
    IF file.status = "partial" THEN SubSeq(PayloadText, 1, file.written) ELSE PayloadText

RECURSIVE Depths(_, _)
\* the nesting depth after each part of a text that starts at depth d
Depths(text, d) ==
    IF text = <<>> THEN <<>>
    ELSE LET d2 == IF Head(text) = "{" THEN d + 1
                   ELSE IF Head(text) = "}" THEN d - 1
                   ELSE d
         IN <<d2>> \o Depths(Tail(text), d2)

\* mutant: a text that opens an object is taken for an object
json_load_ok_mutant_lenient(text) == text # <<>> /\ Head(text) = "{"

\* json.load: the text must be one whole object: it opens with a bracket
\* and that bracket is closed by the last part of the text, not before;
\* else JSONDecodeError
json_load_ok(text) ==
    /\ text # <<>>
    /\ Head(text) = "{"
    /\ LET ds == Depths(text, 0)
       IN /\ ds[Len(ds)] = 0
          /\ \A i \in 1..(Len(ds) - 1) : ds[i] > 0

\* _load_research: the file's content with its datetimes restored; None
\* when there is no file or json.load raises
load_research(file) ==
    IF file = NoFile THEN NotFound
    ELSE IF ~json_load_ok(file_text(file)) THEN NotFound
    ELSE IF file.status = "partial" THEN [status |-> "partial", written |-> file.written]
    ELSE [ status         |-> file.status,
           theme          |-> file.theme,
           max_iterations |-> file.max_iterations,
           created_at     |-> deserialize_datetime(file.created_at),
           completed_at   |-> deserialize_datetime(file.completed_at),
           result         |-> file.result ]

(* ---------------- research_manager: the list of researches ------------ *)
research_id == 1
OtherIds == 2..(1 + MaxOthers)
\* created_at of another research: before this one, at the same time, after
OtherTimes == {[sec |-> 0, usec |-> 0], created_at, [sec |-> 2, usec |-> 500]}
OtherCompletedAt == [sec |-> 3, usec |-> 0]

\* d1 is later than d2; None counts as datetime.min
Later(d1, d2) == d1.sec > d2.sec \/ (d1.sec = d2.sec /\ d1.usec > d2.usec)

\* Where another research stands: "running" is in memory only, "completed"
\* is in memory and has its file, "resumed" was completed and then resumed
\* (in memory with status "processing", and its file), "stored" has its
\* file only (the process restarted since).
OtherKinds == {"running", "completed", "resumed", "stored"}

other_entry(id, kind, c) ==
    [ research_id  |-> id,
      theme        |-> theme,
      created_at   |-> c,
      completed_at |-> IF kind = "running" THEN NoTime ELSE OtherCompletedAt,
      status       |-> IF kind = "completed" THEN "completed" ELSE "processing" ]

other_file(id, c) ==
    [ research_id  |-> id,
      status       |-> "completed",
      theme        |-> theme,
      created_at   |-> isoformat(c),
      completed_at |-> isoformat(OtherCompletedAt) ]

Perms(S) == {p \in [1..Cardinality(S) -> S] : \A i, j \in DOMAIN p : p[i] = p[j] => i = j}

\* The other researches a manager can know: researches holds the entries in
\* memory in the order of their creation, files the files in the order in
\* which os.listdir names them.
OtherInputs ==
    UNION { UNION { { [ researches |-> [i \in DOMAIN m |-> other_entry(m[i], f[m[i]].kind, f[m[i]].c)],
                        files      |-> [i \in DOMAIN d |-> other_file(d[i], f[d[i]].c)] ]
                      : m \in {p \in Perms({id \in S : f[id].kind # "stored"}) :
                                 \A i, j \in DOMAIN p : i < j => ~Later(f[p[i]].c, f[p[j]].c)},
                        d \in Perms({id \in S : f[id].kind # "running"}) }
                    : f \in [S -> [kind : OtherKinds, c : OtherTimes]] }
            : S \in SUBSET OtherIds }

NoOthers == [researches |-> <<>>, files |-> <<>>]
NoListing == [done |-> FALSE, list |-> <<>>]

\* self.researches: this research, if it is there, and the others, in the
\* order of their creation
researches ==
    IF ~registered THEN others.researches
    ELSE LET this   == [ research_id  |-> research_id,
                         theme        |-> theme,
                         created_at   |-> created_at,
                         completed_at |-> completed_at,
                         status       |-> status ]
             before == SelectSeq(others.researches, LAMBDA r : ~Later(r.created_at, created_at))
             after  == SelectSeq(others.researches, LAMBDA r : Later(r.created_at, created_at))
         IN before \o <<this>> \o after

\* the .json files of persist_dir
files ==
    others.files \o
    (IF store = NoFile THEN <<>>
     ELSE IF store.status = "partial"
     THEN << [ research_id  |-> research_id,
               status       |-> store.status,
               written      |-> store.written,
               theme        |-> store.theme,
               created_at   |-> store.created_at,
               completed_at |-> store.completed_at ] >>
     ELSE << [ research_id  |-> research_id,
               status       |-> store.status,
               theme        |-> store.theme,
               created_at   |-> store.created_at,
               completed_at |-> store.completed_at ] >>)

\* mutant: the list is returned as it was collected
sort_newest_first_mutant_unsorted(result) == result

RECURSIVE sort_newest_first(_)
\* result.sort(key=created_at or datetime.min, reverse=True): a stable sort,
\* entries of equal key keep their order
sort_newest_first(result) ==
    IF result = <<>> THEN <<>>
    ELSE LET x      == Head(result)
             rest   == sort_newest_first(Tail(result))
             before == SelectSeq(rest, LAMBDA y : Later(y.created_at, x.created_at))
             after  == SelectSeq(rest, LAMBDA y : ~Later(y.created_at, x.created_at))
         IN before \o <<x>> \o after

\* list_persisted_researches over all researches of the manager
list_persisted_researches_all(rs, fs) ==
    LET in_memory == {rs[i].research_id : i \in DOMAIN rs}
        \* a file whose text json.load rejects is skipped
        not_in_memory == SelectSeq(fs, LAMBDA f : /\ f.research_id \notin in_memory
                                                  /\ json_load_ok(file_text(f)))
        from_files == [ i \in DOMAIN not_in_memory |->
                          [ research_id  |-> not_in_memory[i].research_id,
                            theme        |-> not_in_memory[i].theme,
                            created_at   |-> deserialize_datetime(not_in_memory[i].created_at),
                            completed_at |-> deserialize_datetime(not_in_memory[i].completed_at),
                            status       |-> not_in_memory[i].status ] ]
    IN sort_newest_first(rs \o from_files)

\* The state right after create_research returned: the research is
\* registered with status "started" and its task is scheduled.
InitResearch ==
    /\ state = initial_state
    /\ pc = "supervisor"
    /\ last = "START"
    /\ resumed = FALSE
    /\ phase = "scheduled"
    /\ steps = 0
    /\ status = "started"
    /\ store = NoFile
    /\ max_iterations \in 1..MaxSessionIterations
    /\ enable_human_intervention \in BOOLEAN
    /\ MAX_ITERATIONS \in 1..MaxConfigIterations
    /\ search_log = no_searches
    /\ registered = TRUE
    /\ completed_at = NoTime
    /\ response = NoResponse
    /\ deleted = FALSE
    /\ restarted = FALSE
    /\ was_completed = FALSE
    /\ pool = NoPool

\* the manager knows this research only
Init ==
    /\ InitResearch
    /\ others = NoOthers
    /\ listing = NoListing

\* the manager knows other researches too
ListInit ==
    /\ InitResearch
    /\ others \in OtherInputs
    /\ listing = NoListing

\* zero_results: every pass so far got an empty result list;
\* batch_dup: the pass just made got a URL new to research_data twice;
\* query_failed: the pass just made had a query that failed next to a query
\* that returned a URL new to research_data.
log_search(outcomes, all, existing_urls) ==
    [ query_failed |-> /\ \E i \in DOMAIN outcomes : ~outcomes[i].ok
                       /\ \E i \in DOMAIN all : all[i] \notin existing_urls \cup {0},
      zero_results |-> search_log.zero_results /\ all = <<>>,
      batch_dup    |-> \E i, j \in DOMAIN all :
                            /\ i < j
                            /\ all[i] = all[j]
                            /\ all[i] \notin existing_urls \cup {0} ]

\* the next node runs: the pass is no longer the one just made
pass_over == [search_log EXCEPT !.query_failed = FALSE, !.batch_dup = FALSE]

\* what no step of the research changes: its parameters, the environment,
\* and the other researches of the manager
config == <<max_iterations, enable_human_intervention, MAX_ITERATIONS,
            others, listing, pool>>

\* a graph.invoke call is in progress (from _run_research or resume_research)
Invoking == phase \in {"run", "resume"}

\* LangGraph stops before a node named in interrupt_before, unless the call
\* is the invoke(None) that resumes from that very stop.
MustInterrupt == Invoking /\ pc \in interrupt_before /\ ~resumed

CanExecute(node) == Invoking /\ pc = node /\ ~MustInterrupt

\* what has happened to the research so far (not program state)
history == <<deleted, restarted, was_completed>>

\* _run_research, up to the call of graph.invoke.  For a research that has
\* been deleted, researches[research_id] raises KeyError in the try block
\* and again in the except block: the task ends with that exception.
\* mutant: the task of a deleted research runs the graph all the same
RunResearch_mutant_runs_deleted ==
    /\ phase = "scheduled"
    /\ phase' = "run"
    /\ status' = IF registered THEN "processing" ELSE status
    /\ response' = NoResponse
    /\ steps' = 0
    /\ UNCHANGED <<state, pc, last, resumed, store, config, search_log,
                   registered, completed_at, history>>

RunResearch ==
    /\ phase = "scheduled"
    /\ phase' = IF registered THEN "run" ELSE "gone"
    /\ status' = IF registered THEN "processing" ELSE status
    /\ response' = NoResponse
    /\ steps' = 0
    /\ UNCHANGED <<state, pc, last, resumed, store, config, search_log,
                   registered, completed_at, history>>

\* a node ran and its conditional edge returned a key that is in no routing
\* table: the step fails before its writes are applied and graph.invoke
\* raises.  _run_research records "failed"; resume_research logs and
\* returns False.
RoutingError(node) ==
    /\ phase' = "crashed"
    /\ status' = IF phase = "run" THEN "failed" ELSE status
    /\ resumed' = FALSE
    /\ response' = NoResponse
    /\ steps' = 0
    /\ UNCHANGED <<state, pc, last, store, config, search_log,
                   registered, completed_at, history>>

Advance(node, s2, target) ==
    /\ state' = s2
    /\ pc' = target
    /\ last' = node
    /\ resumed' = FALSE
    /\ steps < RecursionLimit
    /\ steps' = steps + 1
    /\ response' = NoResponse
    /\ UNCHANGED <<phase, status, store, config, registered, completed_at, history>>

Supervisor ==
    /\ CanExecute("supervisor")
    /\ \E po \in PlanOutcomes, ro \in RouteOutcomes :
         LET s2 == supervisor_node(state, po, ro)
             r  == route_supervisor(s2)
         IN IF r \in DOMAIN SupervisorEdges
            THEN Advance("supervisor", s2, next_node("supervisor", s2)) /\ search_log' = pass_over
            ELSE RoutingError("supervisor")

PlanningGate ==
    /\ CanExecute("planning_gate")
    /\ LET s2 == planning_gate_node(state)
       IN Advance("planning_gate", s2, next_node("planning_gate", s2))
    /\ UNCHANGED search_log

Researcher ==
    /\ CanExecute("researcher")
    /\ \E outcomes \in SearchOutcomes(state.task_plan.queries, Range(state.research_data)) :
         LET all == all_search_results(search_results_list_of(outcomes))
         IN \E sums \in SummaryResultsFor(state, all) :
              LET s2 == researcher_node(state, all, sums)
              IN /\ Advance("researcher", s2, next_node("researcher", s2))
                 /\ search_log' = log_search(outcomes, all, Range(state.research_data))

Writer ==
    /\ CanExecute("writer")
    /\ \E wo \in WriterOutcomes :
         LET s2 == writer_node(state, wo)
         IN Advance("writer", s2, next_node("writer", s2))
    /\ UNCHANGED search_log

Reviewer ==
    /\ CanExecute("reviewer")
    /\ \E vo \in ReviewOutcomes :
         LET s2 == reviewer_node(state, vo)
             r  == route_reviewer(s2)
         IN IF r \in DOMAIN ReviewerEdges
            THEN Advance("reviewer", s2, next_node("reviewer", s2)) /\ UNCHANGED search_log
            ELSE RoutingError("reviewer")

\* graph.invoke returns: the graph reached END, or stopped before a node of
\* interrupt_before.  _run_research then records "completed" with
\* completed_at and saves; resume_research records "processing".
InvokeReturns ==
    /\ Invoking
    /\ pc = END \/ MustInterrupt
    /\ \E now \in Datetimes :
         /\ completed_at' = IF phase = "run" THEN now ELSE completed_at
         /\ store' = IF phase = "run"
                     THEN save_research(registered, "completed", now, state)
                     ELSE store
    /\ status' = IF phase = "run" THEN "completed" ELSE "processing"
    /\ phase' = "idle"
    /\ was_completed' = (was_completed \/ phase = "run")
    /\ response' = NoResponse
    /\ steps' = 0
    /\ UNCHANGED <<state, pc, last, resumed, config, search_log, registered,
                   deleted, restarted>>

\* no task of the manager is running: requests are served between tasks,
\* since _run_research and resume_research never yield to the event loop
Quiescent == phase \in {"scheduled", "idle", "crashed", "gone", "out_of_steps"}

\* mutant: resume_research is served while _run_research is inside
\* graph.invoke (as if the task yielded to the event loop)
ResumeResearch_mutant_during_run ==
    /\ phase \in {"run", "idle", "crashed", "out_of_steps"}
    /\ registered
    /\ enable_human_intervention
    /\ \E h \in HumanInputs : state' = [state EXCEPT !.human_input = h]
    /\ phase' = "resume"
    /\ resumed' = TRUE
    /\ response' = NoResponse
    /\ steps' = 0
    /\ UNCHANGED <<pc, last, status, store, config, search_log,
                   registered, completed_at, history>>

\* resume_research(research_id, human_input), up to the call of invoke(None)
ResumeResearch ==
    /\ phase \in {"idle", "crashed", "out_of_steps"}
    /\ registered
    /\ enable_human_intervention
    /\ \E h \in HumanInputs : state' = [state EXCEPT !.human_input = h]
    /\ phase' = "resume"
    /\ resumed' = TRUE
    /\ response' = NoResponse
    /\ steps' = 0
    /\ UNCHANGED <<pc, last, status, store, config, search_log,
                   registered, completed_at, history>>

\* delete_research: the entries of researches and graphs are removed; a
\* task that has not started yet stays scheduled
DeleteResearch ==
    /\ Quiescent
    /\ registered
    /\ registered' = FALSE
    /\ deleted' = TRUE
    /\ status' = "none"
    /\ completed_at' = NoTime
    /\ phase' = IF phase = "scheduled" THEN "scheduled" ELSE "gone"
    /\ response' = NoResponse
    /\ steps' = 0
    /\ UNCHANGED <<state, pc, last, resumed, store, config, search_log,
                   restarted, was_completed>>

\* the process stops and a new ResearchManager is constructed on the same
\* persist_dir: researches and graphs are empty, no task is left.  (A stop
\* in the middle of a task leaves the same memory and the same file as a
\* stop just before that task.)
Restart ==
    /\ Quiescent
    /\ ~restarted
    /\ restarted' = TRUE
    /\ registered' = FALSE
    /\ status' = "none"
    /\ completed_at' = NoTime
    /\ phase' = "gone"
    /\ resumed' = FALSE
    /\ response' = NoResponse
    /\ steps' = 0
    /\ UNCHANGED <<state, pc, last, store, config, search_log, deleted,
                   was_completed>>

\* get_research: the entry in memory, else the file
get_research ==
    IF registered
    THEN [ status         |-> status,
           theme          |-> theme,
           max_iterations |-> max_iterations,
           created_at     |-> created_at,
           completed_at   |-> completed_at ]
    ELSE load_research(store)

\* get_status: None unless the research and its graph are in memory
get_status ==
    IF registered
    THEN [status |-> status, state |-> state, next |-> pc]
    ELSE NotFound

\* list_persisted_researches, for this research id: the entry in memory,
\* else the meta data of the file
list_persisted_researches ==
    IF registered
    THEN {[status |-> status, created_at |-> created_at, completed_at |-> completed_at]}
    ELSE IF store # NoFile
    THEN {[status       |-> store.status,
           created_at   |-> deserialize_datetime(store.created_at),
           completed_at |-> deserialize_datetime(store.completed_at)]}
    ELSE {}

(* ------------------------------ api/main ------------------------------ *)
\* mutant: the resume endpoint does not look at the status
resume_endpoint_mutant_no_status_check(research) ==
    IF research = NotFound THEN "not_found" ELSE "call_manager"

\* POST /research/{id}/resume, up to the call of the manager
resume_endpoint(research) ==
    IF research = NotFound THEN "not_found"
    ELSE IF research.status # "interrupted" THEN "not_interrupted"
    ELSE "call_manager"

\* The resume request of the API.  Its call of the manager passes three
\* arguments to resume_research(research_id, human_input): TypeError, which
\* the framework answers with an internal error.
ResumeRequest ==
    /\ Quiescent
    /\ LET r == resume_endpoint(get_research)
       IN response' = IF r = "call_manager" THEN "internal_error" ELSE r
    /\ UNCHANGED <<state, pc, last, resumed, steps, phase, status, store, config,
                   search_log, registered, completed_at, history>>

\* graph.invoke has used up its recursion limit with a node still pending:
\* it raises GraphRecursionError.  _run_research records "failed";
\* resume_research logs and returns False.
GraphRecursionError ==
    /\ Invoking
    /\ pc # END
    /\ ~MustInterrupt
    /\ steps = RecursionLimit
    /\ phase' = "out_of_steps"
    /\ status' = IF phase = "run" THEN "failed" ELSE status
    /\ resumed' = FALSE
    /\ response' = NoResponse
    /\ steps' = 0
    /\ UNCHANGED <<state, pc, last, store, config, search_log,
                   registered, completed_at, history>>

EngineStep ==
    \/ GraphRecursionError
    \/ RunResearch
    \/ Supervisor
    \/ PlanningGate
    \/ Researcher
    \/ Writer
    \/ Reviewer
    \/ InvokeReturns

Next ==
    \/ EngineStep
    \/ ResumeResearch
    \/ DeleteResearch
    \/ Restart
    \/ ResumeRequest

Spec == Init /\ [][Next]_vars

\* The manager operation behind the replan action of the resume request
\* (main.py:366-377 calls it; the manager of this source tree does not have
\* it).  Taken from the specification: on a stopped session it runs
\* revise_plan_node on the state with the human input, stores the new plan
\* with human_input and feedback cleared, and leaves the graph stopped
\* where it was.  When the planning call raises nothing is stored.
replan_research(s, h, po) ==
    LET s2 == revise_plan_node([s EXCEPT !.human_input = h], po)
    IN IF po.kind = "raise"
       THEN s
       ELSE [s EXCEPT !.task_plan = s2.task_plan,
                      !.human_input = s2.human_input,
                      !.feedback = NULL]

ReplanResearch ==
    /\ phase = "idle"
    /\ pc # END
    /\ registered
    /\ enable_human_intervention
    /\ \E h \in HumanInputs, po \in PlanOutcomes :
         /\ state' = replan_research(state, h, po)
         /\ response' = IF po.kind = "raise" THEN "internal_error" ELSE "replanned"
    /\ resumed' = FALSE
    /\ UNCHANGED <<pc, last, steps, phase, status, store, config, search_log,
                   registered, completed_at, history>>

ReplanNext ==
    \/ Next
    \/ ReplanResearch

\* the program with the replan operation added
ReplanSpec == Init /\ [][ReplanNext]_vars

\* GET /research/history: list_persisted_researches is called once
ListPersisted ==
    /\ ~listing.done
    /\ listing' = [done |-> TRUE, list |-> list_persisted_researches_all(researches, files)]
    /\ UNCHANGED <<state, pc, last, resumed, steps, phase, status, store,
                   max_iterations, enable_human_intervention, MAX_ITERATIONS,
                   search_log, registered, completed_at, response, history,
                   others, pool>>

\* The process dies inside _save_research, in json.dump, after k parts of
\* the text (k = all of them: the file is whole), and a new manager is
\* constructed on the same persist_dir.
CrashInSave ==
    /\ phase = "run"
    /\ pc = END \/ MustInterrupt
    /\ registered
    /\ ~restarted
    /\ \E now \in Datetimes, k \in 0..Len(PayloadText) :
         store' = IF k = Len(PayloadText)
                  THEN save_research(registered, "completed", now, state)
                  ELSE PartialFile(k)
    /\ restarted' = TRUE
    /\ registered' = FALSE
    /\ status' = "none"
    /\ completed_at' = NoTime
    /\ phase' = "gone"
    /\ resumed' = FALSE
    /\ response' = NoResponse
    /\ steps' = 0
    /\ UNCHANGED <<state, pc, last, config, search_log, deleted, was_completed>>

\* the files of other researches that a manager finds in persist_dir
StoredOthers ==
    { [ researches |-> <<>>,
        files      |-> << other_file(2, [sec |-> 0, usec |-> 0]),
                          other_file(3, [sec |-> 2, usec |-> 500]) >> ] }

\* the manager finds the files of other researches
CrashInit ==
    /\ InitResearch
    /\ others \in StoredOthers
    /\ listing = NoListing

CrashNext ==
    \/ EngineStep
    \/ CrashInSave
    \/ Restart
    \/ restarted /\ ListPersisted

CrashSpec == CrashInit /\ [][CrashNext]_vars

ListNext == ListPersisted

ListSpec == ListInit /\ [][ListNext]_vars

(* ---------------- utils/parallel, one thread step at a time ------------- *)
MaxPoolTasks == 6
MaxParallelTasks == 3
MaxSearchWorkers == 5
MaxSummaryWorkers == 5

\* everything but the pools
research_vars == <<state, pc, last, resumed, steps, phase, status, store,
                   max_iterations, enable_human_intervention, MAX_ITERATIONS,
                   search_log, registered, completed_at, response, deleted,
                   restarted, was_completed, others, listing>>

\* n tasks; task i returns the value i, or raises if it is in R
Tasks(n, R) == [i \in 1..n |-> [status |-> "new", value |-> i, raises |-> i \in R]]

\* run_parallel_sync(tasks, max_workers) is entered: with no task it
\* returns [] at once, else it creates the executor
NewCall(tasks, max_workers) ==
    [ tasks       |-> tasks,
      max_workers |-> max_workers,
      results     |-> <<>>,
      returned    |-> IF tasks = <<>>
                      THEN [done |-> TRUE, list |-> <<>>, in_order |-> TRUE]
                      ELSE NoReturn ]

WithStatus(c, st) == {i \in DOMAIN c.tasks : c.tasks[i].status = st}

MinOf(S) == CHOOSE m \in S : \A x \in S : m <= x

\* what future.result() gives the loop: the task's value, or the exception
\* that the loop turns into None
task_result(task) == IF task.raises THEN NoResult ELSE task.value

\* mutant: the results are returned in the order of completion
sorted_results_mutant_completion_order(results) ==
    [k \in 1..Len(results) |-> results[k][2]]

\* results.sort(key=lambda x: x[0]) and the list of the second components
sorted_results(results) ==
    LET n == Len(results)
        at(k) == CHOOSE j \in 1..n :
                    Cardinality({m \in 1..n : results[m][1] < results[j][1]}) = k - 1
    IN [k \in 1..n |-> results[at(k)][2]]

\* mutant: as many workers as tasks
search_workers_mutant_uncapped(n) == n

\* researcher.py:158: max_workers of the search pool
search_workers(n) == Min(n, MaxSearchWorkers)

\* researcher.py:186: max_workers of the summarization pool
summary_workers(n) == Min(n, MaxSummaryWorkers)

InCall == pool.stage \in {"search", "summary", "caller"} /\ ~pool.call.returned.done

\* executor.submit(task), in the order of the tasks
Submit ==
    /\ InCall
    /\ WithStatus(pool.call, "new") # {}
    /\ LET i == MinOf(WithStatus(pool.call, "new"))
       IN pool' = [pool EXCEPT !.call.tasks[i].status = "queued"]
    /\ UNCHANGED research_vars

\* a worker thread of the executor takes the oldest queued task; the
\* executor has at most max_workers threads
WorkerStart ==
    /\ InCall
    /\ WithStatus(pool.call, "queued") # {}
    /\ Cardinality(WithStatus(pool.call, "running")) < pool.call.max_workers
    /\ LET i == MinOf(WithStatus(pool.call, "queued"))
       IN pool' = [pool EXCEPT !.call.tasks[i].status = "running"]
    /\ UNCHANGED research_vars

\* a running task returns or raises
TaskDone ==
    /\ InCall
    /\ \E i \in WithStatus(pool.call, "running") :
         pool' = [pool EXCEPT !.call.tasks[i].status = "done"]
    /\ UNCHANGED research_vars

\* the as_completed loop, entered once every task is submitted, gets a
\* finished future and appends (index, result) to results
Collect ==
    /\ InCall
    /\ WithStatus(pool.call, "new") = {}
    /\ \E i \in WithStatus(pool.call, "done") :
         pool' = [pool EXCEPT !.call.tasks[i].status = "collected",
                              !.call.results = Append(@, <<i, task_result(pool.call.tasks[i])>>)]
    /\ UNCHANGED research_vars

\* the loop is over, the executor is shut down, the sorted list is returned
ReturnResults ==
    /\ InCall
    /\ WithStatus(pool.call, "collected") = DOMAIN pool.call.tasks
    /\ pool' = [pool EXCEPT !.call.returned =
                    [ done     |-> TRUE,
                      list     |-> sorted_results(pool.call.results),
                      in_order |-> \A k \in DOMAIN pool.call.results :
                                      pool.call.results[k][1] = k ]]
    /\ UNCHANGED research_vars

\* researcher.py:160-187: the search results are merged and deduplicated;
\* with n unique results the summarization pool is set up, with none it
\* is skipped
AfterSearch ==
    /\ pool.stage = "search"
    /\ pool.call.returned.done
    /\ \E n \in 0..MaxPoolTasks :
         pool' = [ stage    |-> IF n = 0 THEN "done" ELSE "summary",
                   call     |-> IF n = 0 THEN pool.call
                                ELSE NewCall(Tasks(n, {}), summary_workers(n)),
                   searched |-> [ tasks    |-> Len(pool.call.tasks),
                                  finished |-> Cardinality(WithStatus(pool.call, "collected")) ] ]
    /\ UNCHANGED research_vars

\* researcher.py:189-193: the summaries are filtered into new_results
AfterSummaries ==
    /\ pool.stage = "summary"
    /\ pool.call.returned.done
    /\ pool' = [pool EXCEPT !.stage = "done"]
    /\ UNCHANGED research_vars

\* the rest of the program while a pool is looked into: a researcher pass
\* of a running research
PoolResearch(queries) ==
    /\ state = [initial_state EXCEPT
                    !.task_plan = [source |-> "llm", queries |-> queries, prompt_input |-> NULL],
                    !.messages = "routing"]
    /\ pc = "researcher"
    /\ last = "planning_gate"
    /\ resumed = FALSE
    /\ phase = "run"
    /\ steps = 2
    /\ status = "processing"
    /\ store = NoFile
    /\ max_iterations = 1
    /\ enable_human_intervention = FALSE
    /\ MAX_ITERATIONS = 1
    /\ search_log = no_searches
    /\ registered = TRUE
    /\ completed_at = NoTime
    /\ response = NoResponse
    /\ deleted = FALSE
    /\ restarted = FALSE
    /\ was_completed = FALSE
    /\ others = NoOthers
    /\ listing = NoListing

\* researcher.py:152-158: one search task per query of the plan (a plan has
\* at least one query); _execute_search never raises
PoolInit ==
    \E n \in 1..MaxPoolTasks :
        /\ PoolResearch(n)
        /\ pool = [ stage    |-> "search",
                    call     |-> NewCall(Tasks(n, {}), search_workers(n)),
                    searched |-> [tasks |-> 0, finished |-> 0] ]

PoolNext ==
    \/ Submit
    \/ WorkerStart
    \/ TaskDone
    \/ Collect
    \/ ReturnResults
    \/ AfterSearch
    \/ AfterSummaries

PoolSpec == PoolInit /\ [][PoolNext]_vars

\* the threads of the pool are scheduled by the operating system and every
\* task ends (it returns or raises)
PoolFairSpec == PoolSpec /\ WF_vars(PoolNext)

\* run_parallel_sync called with any tasks, some of which may raise, and
\* any positive max_workers
ParallelInit ==
    \E n \in 0..MaxParallelTasks, w \in 1..MaxParallelTasks :
    \E R \in SUBSET (1..n) :
        /\ PoolResearch(1)
        /\ pool = [ stage    |-> "caller",
                    call     |-> NewCall(Tasks(n, R), w),
                    searched |-> [tasks |-> 0, finished |-> 0] ]

ParallelNext ==
    \/ Submit
    \/ WorkerStart
    \/ TaskDone
    \/ Collect
    \/ ReturnResults

ParallelSpec == ParallelInit /\ [][ParallelNext]_vars

\* graph.invoke runs the pending node without waiting for anything; the
\* human who may resume is under no obligation.
FairSpec == Spec /\ WF_vars(EngineStep)

(* ====================================================================== *)
(* Properties                                                             *)
(* ====================================================================== *)
count == state.iteration_count

\* this step runs `node` (it advances the graph or dies in its routing)
Executes(node) ==
    /\ CanExecute(node)
    /\ pc' # pc \/ phase' = "crashed"

\* the engine is stopped before a node: no invoke in progress, graph not at END
Suspended == phase = "idle" /\ pc # END

NoDuplicates(q) == \A i, j \in DOMAIN q : i # j => q[i] # q[j]

\* C1: for any behaviour of the LLM and of the search, the run of a session
\* that waits for no human (human intervention disabled) eventually has its
\* graph at END; it does not execute nodes forever.  (A run that died in a
\* routing error, or whose session was deleted or lost in a restart, is not
\* counted against the property.)
C1_ReachesEnd ==
    (~enable_human_intervention) => <>(pc = END \/ phase \in {"crashed", "gone"})

\* C2: in every reachable state no two entries of research_data share a URL.
C2_EvidenceUrlsUnique == NoDuplicates(state.research_data)

\* C2 witness: the pass just made was given the same new URL twice while
\* research_data already held an entry, and research_data now holds
\* several entries.
C2_Witness ==
    /\ last = "researcher"
    /\ search_log.batch_dup
    /\ Len(state.research_data) >= 2

C4_StageOrder ==
    [][ /\ \A node \in Nodes : Executes(node) => <<last, node>> \in StagePairs
        /\ pc' # pc => \/ <<pc, pc'>> \in StagePairs
                       \/ pc' = END /\ pc \in {"supervisor", "reviewer"}
      ]_vars

\* C4 witness: the reviewer has sent the graph straight to the researcher.
C4_Witness == last = "reviewer" /\ pc = "researcher"

\* C5: while every search returned zero results, the writer has not run,
\* there is no draft, and the researcher has run at most the session's own
\* max_iterations times.
C5_SessionCapEndsRun ==
    search_log.zero_results =>
        /\ last # "writer"
        /\ state.current_draft = NULL
        /\ count <= max_iterations

C8_SuspendsAtPlanningGate ==
    [][ enable_human_intervention /\ Invoking /\ pc = "planning_gate" /\ ~resumed
        => /\ phase' = "idle"
           /\ pc' = "planning_gate"
           /\ last' = "supervisor"
           /\ state'.task_plan # NoPlan
           /\ status' = "interrupted"
      ]_vars

\* C9: the engine is stopped only with human intervention enabled, and only
\* before planning_gate (before Gather) or before the writer.
C9_SuspendsOnlyAtGates ==
    Suspended => enable_human_intervention /\ pc \in {"planning_gate", "writer"}

\* the stage reads state["human_input"]: the supervisor when it plans or
\* delegates the routing to the LLM, the writer when it builds its prompt
SupervisorReadsInput(s) ==
    \/ s.task_plan = NoPlan
    \/ /\ s.iteration_count < MAX_ITERATIONS
       /\ Len(s.research_data) >= MIN_RESEARCH_DATA_COUNT
       /\ s.current_draft # NULL

WriterReadsInput(s) == s.task_plan # NoPlan /\ s.research_data # <<>>

\* C10: while graph.invoke runs, a human input given to resume stays in
\* human_input until a stage that reads it runs (it is removed only by the
\* supervisor or the writer in a run that read it), and the writer, having
\* read it, leaves human_input None.
C10_InputConsumedByReader ==
    [][ Invoking /\ state.human_input = "focus on X"
        => /\ state'.human_input # state.human_input
              => \/ pc = "supervisor" /\ SupervisorReadsInput(state)
                 \/ pc = "writer" /\ WriterReadsInput(state)
           /\ Executes("writer") /\ WriterReadsInput(state)
              => state'.human_input = NULL
      ]_vars

C12_CompletedOnlyAtEnd ==
    /\ (registered /\ status = "completed") => pc = END
    /\ (registered /\ Suspended) => status = "interrupted"
    /\ (store # NoFile /\ store.status = "completed") => pc = END

(* ---------------------------------------------------------------------- *)
\* C13: whenever the graph of a registered research reaches END, in the
\* run started by create_research or in a run continued by resume, the
\* research eventually has status "completed", a completed_at, and a file
\* holding its final result (unless it is deleted or lost by a restart).
C13_EndLeadsToCompleted ==
    (registered /\ pc = END)
        ~> \/ ~registered
           \/ /\ status = "completed"
              /\ completed_at # NoTime
              /\ store # NoFile
              /\ store.result = serialize_result(state)

(* ---------------------------------------------------------------------- *)
\* C14: when delete_research removes a research that is still started or
\* processing, the research is at once absent from
\* list_persisted_researches and get_status finds nothing; from then on it
\* is never registered again and nothing is written to its file, also
\* when its pending task runs.
C14_DeleteRunning ==
    /\ [][ (deleted' /\ ~deleted /\ status \in {"started", "processing"})
           => ( /\ get_status' = NotFound
                /\ list_persisted_researches' = {} ) ]_vars
    /\ [][ deleted => (~registered' /\ store' = store) ]_vars
    /\ [](deleted => get_status = NotFound)

(* ---------------------------------------------------------------------- *)
\* C15: once delete_research has removed a completed research that had a
\* file, both the entry in memory and the file are gone: get_research
\* finds nothing and list_persisted_researches does not list it, right
\* after the delete and after a restart.
C15_DeleteRemovesRecord ==
    (deleted /\ was_completed)
        => /\ ~registered
           /\ store = NoFile
           /\ get_research = NotFound
           /\ list_persisted_researches = {}

(* ---------------------------------------------------------------------- *)
\* C16: after a restart get_research finds a research exactly when it had
\* been completed before the restart and was not deleted; what it returns
\* then has the saved theme, status, draft, iteration_count and
\* research_data, and the created_at and completed_at datetimes that were
\* turned into ISO text; a research whose graph had not reached END at the
\* restart is not found.
C16_RestartRecoversCompleted ==
    restarted =>
        /\ (get_research # NotFound) <=> (was_completed /\ ~deleted)
        /\ (pc # END) => (get_research = NotFound)
        /\ (get_research # NotFound) =>
              /\ get_research.theme = theme
              /\ get_research.status = "completed"
              /\ get_research.created_at = created_at
              /\ get_research.completed_at \in Datetimes
              /\ get_research.result.iteration_count <= count
              /\ (~enable_human_intervention =>
                    get_research.result = serialize_result(state))

(* ---------------------------------------------------------------------- *)
\* C17: for a research that is not in memory but has a file, get_status
\* returns the status held in the file; it finds nothing only when the
\* research is neither in memory nor in a file.
C17_StatusFromFile ==
    /\ (~registered /\ store # NoFile) =>
          /\ get_status # NotFound
          /\ get_status.status = store.status
    /\ (get_status = NotFound) => (~registered /\ store = NoFile)

(* ---------------------------------------------------------------------- *)
\* C18: a file exists for a research only if the status of the research is
\* terminal or interrupted: the file is never written in a step that
\* leaves the research started or processing, and every file holds a
\* status out of completed, failed, interrupted.
C18_RecordOnlyWhenTerminal ==
    /\ [](store # NoFile =>
            get_research.status \in {"completed", "failed", "interrupted"})
    /\ [](store # NoFile =>
            store.status \in {"completed", "failed", "interrupted"})
    /\ [][ store' # store =>
             /\ registered'
             /\ status' \in {"completed", "failed", "interrupted"} ]_vars

C21_RecoverableNeverFailed ==
    /\ [](CanExecute("supervisor") =>
            \A po \in PlanOutcomes :
            \A ro \in {"raise", "malformed"} \cup DOMAIN SupervisorEdges :
                route_supervisor(supervisor_node(state, po, ro))
                    \in DOMAIN SupervisorEdges)
    /\ [](CanExecute("reviewer") =>
            \A vo \in {o \in ReviewOutcomes :
                          \/ o.kind \in {"raise", "malformed"}
                          \/ o.suggested_action \in DOMAIN ReviewerEdges} :
                route_reviewer(reviewer_node(state, vo))
                    \in DOMAIN ReviewerEdges)
    /\ [][ (status' = "failed" /\ status # "failed")
             => (phase = "run" /\ phase' = "crashed"
                 /\ pc \in {"supervisor", "reviewer"}) ]_vars
    /\ [][ (phase = "run" /\ phase' = "idle") => status' = "completed" ]_vars

C23_RequestsServedDuringRun ==
    /\ (phase = "scheduled" /\ registered)
           => (status = "started" /\ last = "START" /\ steps = 0)
    /\ (phase = "run" /\ registered)
           => (status = "processing" /\ ENABLED DeleteResearch)

(* ---------------------------------------------------------------------- *)
\* C24: when the reviewer gets a verdict with approved = true, it clears
\* feedback and sets next_action to "end", the graph goes to END with no
\* further node, and the research (unless deleted or lost by a restart)
\* eventually is at rest with status "completed".
C24_ApprovalCompletes ==
    /\ [][ (Executes("reviewer") /\ state'.messages = "review_approved")
             => ( /\ state'.feedback = NULL
                  /\ state'.next_action = "end"
                  /\ pc' = END ) ]_vars
    /\ (registered /\ pc = END /\ state.messages = "review_approved")
          ~> (~registered \/ (phase = "idle" /\ status = "completed"))

C26_FailedQueriesTolerated ==
    (CanExecute("researcher") /\ state.task_plan # NoPlan) =>
        \A outcomes \in SearchOutcomes(state.task_plan.queries, Range(state.research_data)) :
        \A sums \in SummaryResultsFor(state, all_search_results(search_results_list_of(outcomes))) :
            LET list == search_results_list_of(outcomes)
                all  == all_search_results(list)
                r    == researcher_body(state, all, sums)
                s2   == researcher_node(state, all, sums)
            IN /\ ~r.exc
               /\ DOMAIN list = DOMAIN outcomes
               /\ \A i \in DOMAIN outcomes :
                    list[i] = IF outcomes[i].ok THEN outcomes[i].results ELSE <<>>
               /\ Range(s2.research_data) =
                    Range(state.research_data) \cup
                    { u \in UNION { Range(outcomes[i].results) : i \in DOMAIN outcomes } : u # 0 }
               /\ s2.iteration_count = state.iteration_count + 1
               /\ s2.next_action = state.next_action
               /\ s2.messages = "search_summary"

\* C26 witness: the researcher has just completed a pass in which one query
\* failed and another returned a URL that research_data did not hold, and
\* the graph goes on to the supervisor.
C26_Witness ==
    /\ search_log.query_failed
    /\ last = "researcher"
    /\ pc = "supervisor"
    /\ state.messages = "search_summary"
    /\ state.research_data # <<>>
    /\ state.iteration_count >= 1

(* ---------------------------------------------------------------------- *)
ListedIds == {listing.list[i].research_id : i \in DOMAIN listing.list}
MemoryIds == {researches[i].research_id : i \in DOMAIN researches}
FileIds == {files[i].research_id : i \in DOMAIN files}

C28_StageAddsOne ==
    [][ /\ (Executes("researcher") /\ phase' # "crashed")
             => count' = count + 1
        /\ (Executes("writer") /\ phase' # "crashed"
              /\ state'.messages \in {"draft", "draft_reduced", "draft_fallback"})
             => count' = count + 1
        /\ (Executes("reviewer") /\ phase' # "crashed")
             => count' = count + 1
      ]_vars

(* ---------------------------------------------------------------------- *)
\* C29: whatever the LLM returns, the supervisor and the reviewer leave
\* next_action in {"research", "write", "end"}, and no step that runs the
\* supervisor or the reviewer dies because the conditional edge finds no
\* target for the key it was given.
C29_NextStageDefined ==
    /\ [](CanExecute("supervisor") =>
            \A po \in PlanOutcomes, ro \in RouteOutcomes :
                supervisor_node(state, po, ro).next_action \in {"research", "write", "end"})
    /\ [](CanExecute("reviewer") =>
            \A vo \in ReviewOutcomes :
                reviewer_node(state, vo).next_action \in {"research", "write", "end"})
    /\ [][ (Executes("supervisor") \/ Executes("reviewer")) => phase' # "crashed" ]_vars

(* ---------------------------------------------------------------------- *)
\* C30: whenever the supervisor is about to run in the delegated rung (a
\* plan, iteration_count below the ceiling, at least 5 results and a
\* draft), then if its routing call raises or returns unparseable text the
\* supervisor sets next_action "research" and its edge leads on to the
\* planning gate, not to END.
C30_RoutingFailureDefaultsToGather ==
    ( /\ CanExecute("supervisor")
      /\ state.task_plan # NoPlan
      /\ state.iteration_count < MAX_ITERATIONS
      /\ Len(state.research_data) >= 5
      /\ state.current_draft # NULL ) =>
        \A po \in PlanOutcomes, ro \in {"raise", "malformed"} :
            LET s2 == supervisor_node(state, po, ro)
            IN /\ s2.next_action = "research"
               /\ route_supervisor(s2) \in DOMAIN SupervisorEdges
               /\ SupervisorEdges[route_supervisor(s2)] = "planning_gate"

MaxWriterData == 2

\* the plans a state can hold: none, or one generate_research_plan returned
WriterPlans ==
    {NoPlan} \cup { generate_research_plan(initial_state, po)
                      : po \in {o \in PlanOutcomes : o.kind # "raise"} }

\* the states handed to writer_node: with or without a plan, with no or
\* some research_data, before or after a first draft
WriterInputs ==
    { [initial_state EXCEPT !.task_plan = p,
                            !.research_data = [i \in 1..n |-> i],
                            !.current_draft = d,
                            !.iteration_count = c]
        : p \in WriterPlans, n \in 0..MaxWriterData,
          d \in {NULL, "draft"}, c \in 0..1 }

WriterInit ==
    /\ state \in WriterInputs
    /\ pc = "writer"
    /\ last = "START"
    /\ resumed = FALSE
    /\ phase = "run"
    /\ steps = 0
    /\ status = "processing"
    /\ store = NoFile
    /\ max_iterations \in 1..MaxSessionIterations
    /\ enable_human_intervention \in BOOLEAN
    /\ MAX_ITERATIONS \in 1..MaxConfigIterations
    /\ search_log = no_searches
    /\ registered = TRUE
    /\ completed_at = NoTime
    /\ response = NoResponse
    /\ deleted = FALSE
    /\ restarted = FALSE
    /\ was_completed = FALSE
    /\ others = NoOthers
    /\ listing = NoListing
    /\ pool = NoPool

WriterNext == Writer

WriterSpec == WriterInit /\ [][WriterNext]_vars

C33_RateLimitBackToGather ==
    [][ /\ (/\ CanExecute("writer")
            /\ last' = "writer"
            /\ state'.messages = "rate_limit")
           => /\ state'.current_draft = state.current_draft
              /\ state'.next_action = "research"
        /\ (/\ last = "writer"
            /\ state.messages = "rate_limit")
           => /\ ~Executes("reviewer")
              /\ ~Executes("writer") ]_vars

(* ---------------------------------------------------------------------- *)
\* C34: whenever handle_node_errors has forced next_action "end" because an
\* exception escaped the body of the supervisor, researcher, writer or
\* reviewer, the graph goes from that node to END: no other node runs on
\* the forced state.  Stated in every state where the node is about to
\* run, for the state the wrapper returns if the body raises there.
C34_ForcedEndEndsRun ==
    /\ CanExecute("supervisor") =>
         \A po \in PlanOutcomes, ro \in RouteOutcomes :
            supervisor_body(state, po, ro).exc =>
                next_node("supervisor", supervisor_node(state, po, ro)) = END
    /\ \A node \in {"researcher", "writer", "reviewer"} :
         CanExecute(node) =>
            next_node(node, handle_node_errors(Raised(state))) = END

(* ---------------------------------------------------------------------- *)
\* C35: whenever the researcher is about to run with a plan, then for every
\* outcome of its searches and of its summarizations, every candidate that
\* the deduplication kept (non-empty URL, not yet in research_data) is in
\* research_data when the pass ends, a candidate whose summarization
\* failed or gave nothing included, so that research_data has grown by
\* exactly the number of candidates.
C35_NoCandidateDropped ==
    (CanExecute("researcher") /\ state.task_plan # NoPlan) =>
        \A all \in SearchBatches(Range(state.research_data)) :
        \A sums \in SummaryResultsFor(state, all) :
            LET unique_results == UniqueResults(all, {}, Range(state.research_data))
                s2 == researcher_node(state, all, sums)
            IN /\ Range(unique_results) \subseteq Range(s2.research_data)
               /\ Len(s2.research_data) = Len(state.research_data) + Len(unique_results)

(* ---------------------------------------------------------------------- *)
\* C36: during a researcher pass at most min(number of queries, 5) search
\* tasks are running at any moment and at most 5 summarization tasks; the
\* summarization pool exists only once every search task has finished;
\* and every task submitted to either pool is run to its end: a call of
\* run_parallel_sync returns only when each of its tasks has ended, and
\* the pass always gets past both calls.
C36_BoundedPools ==
    /\ [](pool.stage = "search" =>
            Cardinality(WithStatus(pool.call, "running"))
                <= Min(Len(pool.call.tasks), 5))
    /\ [](pool.stage = "summary" =>
            /\ Cardinality(WithStatus(pool.call, "running")) <= 5
            /\ pool.searched.tasks >= 1
            /\ pool.searched.finished = pool.searched.tasks)
    /\ [](pool.call.returned.done =>
            WithStatus(pool.call, "collected") = DOMAIN pool.call.tasks)
    /\ <>(pool.stage = "done")

\* C36 witness: six summarization tasks, after six searches: five are
\* running and the sixth waits in the queue.
C36_Witness ==
    /\ pool.stage = "summary"
    /\ pool.searched.tasks = 6
    /\ Len(pool.call.tasks) = 6
    /\ Cardinality(WithStatus(pool.call, "running")) = 5
    /\ WithStatus(pool.call, "queued") = {6}

CompleteRecord(r) ==
    /\ r.status = "completed"
    /\ r.theme = theme
    /\ r.max_iterations = max_iterations
    /\ r.created_at = created_at
    /\ r.completed_at \in Datetimes
    /\ r.result = serialize_result(state)

\* C38: when the process stops at any point of the write of a research's
\* file, then after the restart get_research gives the complete record or
\* nothing, never a part of a record, and list_persisted_researches still
\* gives every other research whose file is whole (and no entry for a file
\* that is not).
C38_CrashInSaveLeavesNoPartialRecord ==
    restarted =>
        /\ get_research = NotFound \/ CompleteRecord(get_research)
        /\ listing.done =>
             /\ \A i \in DOMAIN others.files :
                  \E j \in DOMAIN listing.list :
                     /\ listing.list[j].research_id = others.files[i].research_id
                     /\ listing.list[j].status = others.files[i].status
                     /\ listing.list[j].created_at = deserialize_datetime(others.files[i].created_at)
             /\ \A j \in DOMAIN listing.list :
                  /\ listing.list[j].status # "partial"
                  /\ listing.list[j].research_id = research_id => store.status = "completed"

\* the write stopped after the inner object was closed and before the outer
\* one was; the new manager has listed the researches and found the two others
C38_Witness ==
    /\ restarted
    /\ store.status = "partial"
    /\ store.written = Len(PayloadText) - 1
    /\ get_research = NotFound
    /\ listing.done
    /\ Len(others.files) = 2
    /\ Len(listing.list) = 2

====
